---- MODULE Spec2Model ----
(***************************************************************************)
(* A model of store_go (src/main.go): an HTTP file store over the          *)
(* directory "data".  The handlers listHandler, uploadHandler,             *)
(* deleteHandler and getFileHandler are modelled as atomic steps over a    *)
(* filesystem tree; TokenMiddleware guards the first three.  A second      *)
(* specification, SpecConc, models two uploadHandler runs that write the   *)
(* same destination file concurrently, one write call per step.            *)
(*                                                                         *)
(* A path string is a record [abs, segs, trail]: whether it starts with a  *)
(* slash, its non-empty segments, and whether it ends with a slash.  The   *)
(* empty string is [FALSE, <<>>, FALSE] and "/" is [TRUE, <<>>, FALSE].    *)
(* A cleaned relative path (what filepath.Join returns) is the sequence of *)
(* its elements, <<>> standing for ".".  The filesystem is a function from *)
(* the existing paths below the working directory to "dir" or, for a       *)
(* regular file, its content.                                              *)
(***************************************************************************)
EXTENDS Naturals, Sequences, FiniteSets

VARIABLES token, fs, pre, req, resp, served, touched, cfile, ups

vars == <<token, fs, pre, req, resp, served, touched, cfile, ups>>

(* ------------------------------ bounds -------------------------------- *)

\* Longest client path, in segments.
MaxSegs == 2

\* Longest upload payload of the concurrent specification, in write calls.
MaxChunks == 3

\* File and directory names a client uses; ".." and "." are segments too.
Names == {"a"}

Segs == Names \cup {"..", "."}

\* File payloads.
Contents == {"x", "y"}

\* The value FormFile yields an error for (no multipart field "file").
NoFile == "nofile"

\* Values of the Authorization header; Header.Get returns "" when absent.
Missing == ""

AuthValues == {Missing, "t", "w"}

\* Tokens config.json may hold; "" when its "token" key is empty or absent.
Tokens == {"", "t"}

(* ------------------------------ paths --------------------------------- *)

EmptyPath == [abs |-> FALSE, segs |-> <<>>, trail |-> FALSE]

SlashPath == [abs |-> TRUE, segs |-> <<>>, trail |-> FALSE]

DataRoot == <<"data">>

\* One element of filepath.Clean's scan of a relative path.
Push(st, s) ==
  IF s = "." THEN st
  ELSE IF s = ".."
       THEN IF st # <<>> /\ st[Len(st)] # ".."
            THEN SubSeq(st, 1, Len(st) - 1)
            ELSE Append(st, "..")
       ELSE Append(st, s)

\* One element of filepath.Clean's scan of a rooted path: ".." at the root is dropped.
PushRooted(st, s) ==
  IF s = "." THEN st
  ELSE IF s = ".."
       THEN IF st # <<>> THEN SubSeq(st, 1, Len(st) - 1) ELSE st
       ELSE Append(st, s)

RECURSIVE CleanFrom(_, _)
CleanFrom(st, segs) ==
  IF segs = <<>> THEN st ELSE CleanFrom(Push(st, Head(segs)), Tail(segs))

RECURSIVE CleanRooted(_, _)
CleanRooted(st, segs) ==
  IF segs = <<>> THEN st ELSE CleanRooted(PushRooted(st, Head(segs)), Tail(segs))

\* filepath.Clean of a path string; the result has no trailing slash.
Clean(abs, segs) ==
  [abs |-> abs,
   segs |-> IF abs THEN CleanRooted(<<>>, segs) ELSE CleanFrom(<<>>, segs),
   trail |-> FALSE]

\* filepath.Join(base, p) for a cleaned relative base: Clean(base + "/" + p).
Join(base, p) == CleanFrom(base, p.segs)

\* filepath.Dir: everything up to the last slash, cleaned.
Dir(p) ==
  IF p.trail \/ p.segs = <<>>
  THEN Clean(p.abs, p.segs)
  ELSE Clean(p.abs, SubSeq(p.segs, 1, Len(p.segs) - 1))

\* filepath.Base: the last element, trailing slashes stripped; "." for the
\* empty string and "/" for a path of slashes only.
Base(p) ==
  IF p.segs = <<>>
  THEN IF p.abs THEN SlashPath ELSE [abs |-> FALSE, segs |-> <<".">>, trail |-> FALSE]
  ELSE [abs |-> FALSE, segs |-> <<p.segs[Len(p.segs)]>>, trail |-> FALSE]

SegSeqs == UNION {[1..n -> Segs] : n \in 0..MaxSegs}

\* The model's filesystem is the working directory's tree.
InTree(q) == q = <<>> \/ q[1] # ".."

\* The path strings a client sends: those that resolve inside the working
\* directory's tree.
ClientPaths ==
  {p \in [abs : BOOLEAN, segs : SegSeqs, trail : BOOLEAN] :
     /\ (p.segs = <<>> => ~p.trail)
     /\ InTree(Join(DataRoot, p))}

IsPrefix(d, q) == Len(d) <= Len(q) /\ SubSeq(q, 1, Len(d)) = d

Parent(q) == SubSeq(q, 1, Len(q) - 1)

(* ---------------------------- filesystem ------------------------------ *)

IsDirAt(f, q) == q = <<>> \/ (q \in DOMAIN f /\ f[q] = "dir")

IsFileAt(f, q) == q \in DOMAIN f /\ f[q] # "dir"

\* os.Stat: "dir", "file", or the error.  A path through a regular file
\* fails with ENOTDIR, for which os.IsNotExist is false.
Stat(f, q) ==
  IF ~InTree(q) \/ q = <<>> THEN "dir"
  ELSE IF q \in DOMAIN f THEN (IF f[q] = "dir" THEN "dir" ELSE "file")
  ELSE IF \E i \in 1..(Len(q) - 1) : IsFileAt(f, SubSeq(q, 1, i)) THEN "ENOTDIR"
  ELSE "ENOENT"

IsNotExist(st) == st = "ENOENT"

IsErr(st) == st \in {"ENOENT", "ENOTDIR"}

\* os.MkdirAll: creates q and its missing ancestors, or fails and creates
\* nothing when q or an ancestor is a regular file.
MkdirAll(f, q) ==
  LET pref == {SubSeq(q, 1, i) : i \in 1..Len(q)} IN
  IF ~InTree(q) THEN [err |-> FALSE, fs |-> f]
  ELSE IF \E d \in pref : IsFileAt(f, d) THEN [err |-> TRUE, fs |-> f]
  ELSE [err |-> FALSE,
        fs |-> [d \in DOMAIN f \cup pref |-> IF d \in DOMAIN f THEN f[d] ELSE "dir"]]

\* os.Create (O_RDWR|O_CREATE|O_TRUNC): an empty regular file at q.
Create(f, q) ==
  IF Stat(f, q) = "file" \/ (Stat(f, q) = "ENOENT" /\ Stat(f, Parent(q)) = "dir")
  THEN [err |-> FALSE,
        fs |-> [d \in DOMAIN f \cup {q} |-> IF d = q THEN "" ELSE f[d]]]
  ELSE [err |-> TRUE, fs |-> f]

\* io.Copy of the whole payload into the file just created.
Copy(f, q, c) == [d \in DOMAIN f |-> IF d = q THEN c ELSE f[d]]

\* A removal that takes the named entry only and leaves what is beneath it.
RemoveOnly(f, q) ==
  IF q = <<>> \/ Stat(f, q) = "ENOTDIR" THEN [err |-> TRUE, fs |-> f]
  ELSE [err |-> FALSE, fs |-> [d \in DOMAIN f \ {q} |-> f[d]]]

\* os.RemoveAll: EINVAL for ".", nil for a path that does not exist,
\* otherwise q and everything beneath it is removed.
RemoveAll(f, q) ==
  IF q = <<>> \/ Stat(f, q) = "ENOTDIR" THEN [err |-> TRUE, fs |-> f]
  ELSE [err |-> FALSE,
        fs |-> [d \in {e \in DOMAIN f : ~IsPrefix(q, e)} |-> f[d]]]

(* ----------------------------- responses ------------------------------ *)

NoContent == [nil |-> TRUE, entries |-> {}]

\* []ListEntry{}: an empty, non-nil slice.
EmptyList == [nil |-> FALSE, entries |-> {}]

\* A response: the HTTP code, the JSON envelope's keys and values, and the
\* raw body of a download.  No handler sets a filePath key.
Response(code, fields, status, message, content, body) ==
  [code |-> code, fields |-> fields, status |-> status, message |-> message,
   content |-> content, filePath |-> EmptyPath, body |-> body]

NoResponse == Response(0, {}, 0, "", NoContent, "")

\* http.Error(w, "Invalid token", 401): a plain-text body, no envelope.
Unauthorized == Response(401, {}, 0, "Invalid token", NoContent, "")

\* sendJSONResponse: status 1 exactly for code 200; two fields either way.
sendJSONResponse(statusCode, message) ==
  Response(statusCode, {"status", "message"},
           IF statusCode = 200 THEN 1 ELSE 0, message, NoContent, "")

\* sendListResponse: the given response with its message overwritten.
sendListResponse(statusCode, message, status, content) ==
  Response(statusCode, {"status", "message", "content"}, status, message, content, "")

\* sendDeleteResponse: the DeleteResponse as given.
sendDeleteResponse(statusCode, status, message) ==
  Response(statusCode, {"status", "message"}, status, message, NoContent, "")

Result(f, r, t) == [fs |-> f, resp |-> r, touched |-> t]

(* ------------------------------ handlers ------------------------------ *)

\* TokenMiddleware: the wrapped handler runs exactly when the header equals
\* the configured token.
TokenMiddleware(validToken, auth) == auth = validToken

\* listDirectory: Open then Readdir(-1).  entries starts as a nil slice and
\* is appended to once per child.
listDirectory(f, q) ==
  LET kids == {d \in DOMAIN f : Len(d) = Len(q) + 1 /\ IsPrefix(q, d)} IN
  IF Stat(f, q) # "dir" THEN [err |-> TRUE, list |-> NoContent]
  ELSE [err |-> FALSE,
        list |-> [nil |-> kids = {},
                  entries |-> {[name |-> d[Len(d)], is_dir |-> f[d] = "dir"] : d \in kids}]]

listHandler(f, bad, path) ==
  LET fullPath == IF path = EmptyPath THEN DataRoot ELSE CleanFrom(DataRoot, path.segs)
      ls == listDirectory(f, fullPath)
  IN  IF bad
      THEN Result(f, sendListResponse(400, "missing parameter", 0, EmptyList), {})
      ELSE IF IsErr(Stat(f, fullPath))
      THEN Result(f, sendListResponse(200, "directory does not exist", 0, EmptyList),
                  {fullPath})
      ELSE IF ls.err
      THEN Result(f, sendListResponse(500, "cannot list directory", 0, EmptyList),
                  {fullPath})
      ELSE Result(f, sendListResponse(200, "success", 1, ls.list), {fullPath})

uploadHandler(f, path, file) ==
  LET dir == Dir(path)
      fullPath == Join(DataRoot, dir)
      mk == IF IsNotExist(Stat(f, fullPath)) THEN MkdirAll(f, fullPath)
            ELSE [err |-> FALSE, fs |-> f]
      newFilePath == Join(fullPath, Base(path))
      cr == Create(mk.fs, newFilePath)
  IN  IF path = EmptyPath
      THEN Result(f, sendJSONResponse(400, "missing storage path"), {})
      ELSE IF file = NoFile
      THEN Result(f, sendJSONResponse(400, "receiving file failed"), {})
      ELSE IF mk.err
      THEN Result(f, sendJSONResponse(500, "creating directory failed"), {fullPath})
      ELSE IF cr.err
      THEN Result(mk.fs, sendJSONResponse(500, "creating file failed"),
                  {fullPath, newFilePath})
      ELSE Result(Copy(cr.fs, newFilePath, file),
                  sendJSONResponse(200, "upload succeeded"), {fullPath, newFilePath})

\* A delete that leaves the existence check to RemoveAll, which returns nil
\* for a path that does not exist.
deleteHandlerNoStat(f, bad, path) ==
  LET fullPath == Join(DataRoot, path)
      rm == RemoveAll(f, fullPath)
  IN  IF bad
      THEN Result(f, sendDeleteResponse(400, 0, "missing parameter"), {})
      ELSE IF path = EmptyPath
      THEN Result(f, sendDeleteResponse(400, 0, "missing path parameter"), {})
      ELSE IF rm.err
      THEN Result(rm.fs, sendDeleteResponse(500, 0, "delete failed"), {fullPath})
      ELSE Result(rm.fs, sendDeleteResponse(200, 1, "delete succeeded"), {fullPath})

deleteHandler(f, bad, path) ==
  LET fullPath == Join(DataRoot, path)
      st == Stat(f, fullPath)
      rm == RemoveAll(f, fullPath)
  IN  IF bad
      THEN Result(f, sendDeleteResponse(400, 0, "missing parameter"), {})
      ELSE IF path = EmptyPath
      THEN Result(f, sendDeleteResponse(400, 0, "missing path parameter"), {})
      ELSE IF IsNotExist(st)
      THEN Result(f, sendDeleteResponse(200, 0, "does not exist"), {fullPath})
      ELSE IF IsErr(st)
      THEN Result(f, sendDeleteResponse(500, 0, "cannot stat"), {fullPath})
      ELSE IF rm.err
      THEN Result(rm.fs, sendDeleteResponse(500, 0, "delete failed"), {fullPath})
      ELSE Result(rm.fs, sendDeleteResponse(200, 1, "delete succeeded"), {fullPath})

\* getFileHandler: filePath is the URL path after "/get/".
getFileHandler(f, filePath) ==
  LET fullPath == Join(DataRoot, filePath)
      st == Stat(f, fullPath)
  IN  IF IsNotExist(st)
      THEN Result(f, sendJSONResponse(404, "resource does not exist"), {fullPath})
      ELSE IF IsErr(st)
      THEN Result(f, sendJSONResponse(500, "server error"), {fullPath})
      ELSE IF st = "dir"
      THEN Result(f, sendJSONResponse(404, "resource does not exist"), {fullPath})
      ELSE Result(f, Response(200, {}, 0, "", NoContent, f[fullPath]), {fullPath})

(* ------------------------- requests and steps ------------------------- *)

Request(op, auth, bad, path, file) ==
  [op |-> op, auth |-> auth, bad |-> bad, path |-> path, file |-> file]

NoRequest == Request("none", Missing, FALSE, EmptyPath, NoFile)

\* The two uploads of the concurrent specification, before they start.
IdleUploads == [i \in 1..2 |-> [pc |-> "idle", off |-> 0, payload |-> <<>>]]

\* main: the data directory is created, the token is read from config.json.
Init ==
  /\ token \in Tokens
  /\ fs = [d \in {DataRoot} |-> "dir"]
  /\ pre = fs
  /\ req = NoRequest
  /\ resp = NoResponse
  /\ served = "none"
  /\ touched = {}
  /\ cfile = <<>>
  /\ ups = IdleUploads

\* One request served from start to end: r is the request, h the wrapped
\* handler's name, out its result.  pre keeps the filesystem the request
\* found.
Serve(r, guarded, h, out) ==
  LET pass == ~guarded \/ TokenMiddleware(token, r.auth) IN
  /\ req' = r
  /\ pre' = fs
  /\ fs' = IF pass THEN out.fs ELSE fs
  /\ resp' = IF pass THEN out.resp ELSE Unauthorized
  /\ touched' = IF pass THEN out.touched ELSE {}
  /\ served' = IF pass THEN h ELSE "none"
  /\ UNCHANGED <<token, cfile, ups>>

\* The response is written and the request's values are dropped; only the
\* filesystem and the token outlive a request.
Done ==
  /\ req # NoRequest
  /\ req' = NoRequest
  /\ resp' = NoResponse
  /\ pre' = fs
  /\ served' = "none"
  /\ touched' = {}
  /\ UNCHANGED <<token, fs, cfile, ups>>

List ==
  /\ req = NoRequest
  /\ \E auth \in AuthValues, bad \in BOOLEAN, p \in ClientPaths :
       /\ bad => p = EmptyPath
       /\ Serve(Request("list", auth, bad, p, NoFile), TRUE, "listHandler",
                listHandler(fs, bad, p))

Upload ==
  /\ req = NoRequest
  /\ \E auth \in AuthValues, p \in ClientPaths, file \in Contents \cup {NoFile} :
       Serve(Request("upload", auth, FALSE, p, file), TRUE, "uploadHandler",
             uploadHandler(fs, p, file))

Delete ==
  /\ req = NoRequest
  /\ \E auth \in AuthValues, bad \in BOOLEAN, p \in ClientPaths :
       /\ bad => p = EmptyPath
       /\ Serve(Request("delete", auth, bad, p, NoFile), TRUE, "deleteHandler",
                deleteHandler(fs, bad, p))

\* /get/ is registered without the middleware.
Get ==
  /\ req = NoRequest
  /\ \E auth \in AuthValues, p \in ClientPaths :
       Serve(Request("get", auth, FALSE, p, NoFile), FALSE, "getFileHandler",
             getFileHandler(fs, p))

Next == List \/ Upload \/ Delete \/ Get \/ Done

Spec == Init /\ [][Next]_vars

(* ---------------------- two concurrent uploads ------------------------ *)

\* The blocks io.Copy writes; 0 is the byte a hole reads as.
Blocks == {1, 2}

Payloads == UNION {[1..n -> Blocks] : n \in 1..MaxChunks}

RECURSIVE Zeros(_)
Zeros(n) == IF n = 0 THEN <<>> ELSE <<0>> \o Zeros(n - 1)

\* A write that ignores the handle's offset and lands at the end of the file.
WriteAppend(file, pos, b) == Append(file, b)

\* One Write call of io.Copy through a handle whose offset is pos - 1: the
\* block lands at pos, and a gap past the end of the file reads as zeros.
WriteAt(file, pos, b) ==
  IF pos <= Len(file) THEN [file EXCEPT ![pos] = b]
  ELSE file \o Zeros(pos - Len(file) - 1) \o <<b>>

\* Both requests have a payload and a destination directory that exists;
\* the destination file does not exist yet.
InitConc ==
  /\ token \in Tokens
  /\ fs = [d \in {DataRoot} |-> "dir"]
  /\ pre = fs
  /\ req = NoRequest
  /\ resp = NoResponse
  /\ served = "none"
  /\ touched = {}
  /\ cfile = <<>>
  /\ ups \in [1..2 -> [pc : {"create"}, off : {0}, payload : Payloads]]

\* os.Create: the file is truncated; the new handle's offset is 0.
CCreate(i) ==
  /\ ups[i].pc = "create"
  /\ cfile' = <<>>
  /\ ups' = [ups EXCEPT ![i].pc = "copy"]
  /\ UNCHANGED <<token, fs, pre, req, resp, served, touched>>

\* io.Copy: one Write of the next block at the handle's own offset.
CWrite(i) ==
  /\ ups[i].pc = "copy"
  /\ ups[i].off < Len(ups[i].payload)
  /\ cfile' = WriteAt(cfile, ups[i].off + 1, ups[i].payload[ups[i].off + 1])
  /\ ups' = [ups EXCEPT ![i].off = @ + 1]
  /\ UNCHANGED <<token, fs, pre, req, resp, served, touched>>

\* io.Copy returned nil: the success response is sent.
CFinish(i) ==
  /\ ups[i].pc = "copy"
  /\ ups[i].off = Len(ups[i].payload)
  /\ ups' = [ups EXCEPT ![i].pc = "done"]
  /\ UNCHANGED <<token, fs, pre, req, resp, served, touched, cfile>>

NextConc == \E i \in 1..2 : CCreate(i) \/ CWrite(i) \/ CFinish(i)

SpecConc == InitConc /\ [][NextConc]_vars

(* ------------------------------ claims -------------------------------- *)

\* The request just answered passed the token check.
Authorized == req.auth = token

\* The path the request just answered resolves to.
Target == Join(DataRoot, req.path)

\* The request's path with a ".." segment added: the path of Target's parent.
ParentPath == [abs |-> req.path.abs, segs |-> Append(req.path.segs, ".."), trail |-> FALSE]

Children(f, q) == {d \in DOMAIN f : Len(d) = Len(q) + 1 /\ IsPrefix(q, d)}

\* C1: a request to /list, /upload or /delete whose Authorization header is
\* missing or differs from the configured token (the empty token included)
\* is answered 401, its handler is not invoked and the filesystem is as the
\* request found it.
C1_RejectsMissingOrWrongToken ==
  (req.op \in {"list", "upload", "delete"} /\ (req.auth = Missing \/ req.auth # token))
    => (resp.code = 401 /\ served = "none" /\ fs = pre)

\* C2: after a successful authorized upload of C to a non-empty path P with
\* no ".." segment (a leading slash, a trailing slash or a single component
\* included), GET /get/P made next returns 200 with body exactly C.
C2_UploadThenDownload ==
  (/\ req.op = "upload" /\ Authorized /\ resp.code = 200
   /\ req.path # EmptyPath
   /\ \A i \in 1..Len(req.path.segs) : req.path.segs[i] # "..")
    => LET got == getFileHandler(fs, req.path).resp
       IN  got.code = 200 /\ got.body = req.file

\* C3: a successful upload answers 200 with the three fields status (1),
\* message and filePath, filePath being the X-FormFile-Path header's value;
\* every failure branch answers with status 0 and a message only.
C3_UploadEnvelope ==
  served = "uploadHandler"
    => IF resp.code = 200
       THEN /\ resp.fields = {"status", "message", "filePath"}
            /\ resp.status = 1
            /\ resp.filePath = req.path
       ELSE resp.fields = {"status", "message"} /\ resp.status = 0

\* C4: an authorized /list of an existing directory without children
\* answers 200 with status 1, message "success" and content the empty list,
\* not null.
C4_EmptyDirectoryListsEmpty ==
  (/\ req.op = "list" /\ Authorized /\ ~req.bad
   /\ Stat(pre, Target) = "dir" /\ Children(pre, Target) = {})
    => (/\ resp.code = 200 /\ resp.status = 1 /\ resp.message = "success"
        /\ resp.content = EmptyList)

\* C5: an authorized /list answers 200 with status 0 and an empty content
\* list exactly when the resolved path does not exist; a stat error other
\* than not-exist, or a path that is a regular file, answers 500 with
\* status 0 and an empty content list.
C5_ListMissingVersusOtherErrors ==
  (req.op = "list" /\ Authorized /\ ~req.bad)
    => /\ (resp.code = 200 /\ resp.status = 0 /\ resp.content = EmptyList)
            <=> IsNotExist(Stat(pre, Target))
       /\ Stat(pre, Target) \in {"ENOTDIR", "file"}
            => (resp.code = 500 /\ resp.status = 0 /\ resp.content = EmptyList)

\* C6: after an authorized /delete of an existing directory D answered 200
\* with status 1, neither D nor anything beneath D exists, every other path
\* is as it was, and a listing of D's parent made next succeeds and does not
\* contain D's name.
C6_DeleteDirectoryRemovesSubtree ==
  (/\ req.op = "delete" /\ Authorized
   /\ resp.code = 200 /\ resp.status = 1
   /\ Stat(pre, Target) = "dir")
    => /\ \A q \in DOMAIN fs : ~IsPrefix(Target, q)
       /\ \A q \in DOMAIN pre \cup DOMAIN fs :
            ~IsPrefix(Target, q) => (q \in DOMAIN pre /\ q \in DOMAIN fs /\ fs[q] = pre[q])
       /\ LET ls == listHandler(fs, FALSE, ParentPath).resp
          IN  /\ ls.code = 200 /\ ls.status = 1
              /\ \A e \in ls.content.entries : e.name # Target[Len(Target)]

\* C6 witness: a directory with something beneath it was deleted while
\* another path existed beside it.
C6_Witness ==
  /\ req.op = "delete" /\ Authorized
  /\ resp.code = 200 /\ resp.status = 1
  /\ Stat(pre, Target) = "dir"
  /\ \E q \in DOMAIN pre : IsPrefix(Target, q) /\ q # Target
  /\ \E q \in DOMAIN pre : ~IsPrefix(Target, q)

\* C7: an authorized /delete whose resolved path does not exist (stat
\* reports not-exist) answers 200 with status 0 and changes nothing; an
\* authorized /delete with an empty path answers 400 and changes nothing.
C7_DeleteMissingOrEmptyIsNoOp ==
  (req.op = "delete" /\ Authorized /\ ~req.bad)
    => /\ (req.path # EmptyPath /\ IsNotExist(Stat(pre, Target)))
            => (resp.code = 200 /\ resp.status = 0 /\ fs = pre)
       /\ req.path = EmptyPath => (resp.code = 400 /\ fs = pre)

\* C7 witness: a path that does not exist was deleted in a store that holds
\* a file.
C7_Witness ==
  /\ req.op = "delete" /\ Authorized /\ ~req.bad
  /\ req.path # EmptyPath /\ IsNotExist(Stat(pre, Target))
  /\ resp.code = 200 /\ resp.status = 0
  /\ \E q \in DOMAIN pre : IsFileAt(pre, q)

\* C8: every path a request reads, writes or removes is the storage root or
\* lies beneath it, whatever path string the client sent.
C8_StaysUnderStorageRoot ==
  \A q \in touched : IsPrefix(DataRoot, q)

\* C9: the storage root directory exists in every reachable state.
C9_StorageRootAlwaysExists ==
  IsDirAt(fs, DataRoot)

BothDone == \A i \in 1..2 : ups[i].pc = "done"

\* C10 as stated: when two concurrent uploads to one path have both reported
\* success, the file holds exactly the payload of one of them.
C10_OnePayloadWins ==
  BothDone => cfile \in {ups[1].payload, ups[2].payload}

\* C10 as amended: when both uploads have reported success, the file is no
\* longer than the longer payload and each of its blocks is the block one of
\* the uploads wrote at that offset, or the zero of a hole left by a
\* truncation; the content may mix the two payloads.
C10_EachBlockFromOneUpload ==
  BothDone
    => /\ \E i \in 1..2 : Len(cfile) <= Len(ups[i].payload)
       /\ \A k \in 1..Len(cfile) :
            \/ cfile[k] = 0
            \/ \E i \in 1..2 : k <= Len(ups[i].payload) /\ cfile[k] = ups[i].payload[k]

\* C10 witness: both uploads reported success and the file is neither payload.
C10_Witness ==
  BothDone /\ cfile \notin {ups[1].payload, ups[2].payload}

====
